---- MODULE Spec2Model ----
(***************************************************************************)
(* A model of plot.py (HWN-Karte): the classification of stamp records,    *)
(* the per-challenge and per-status counts, the marker and track layers    *)
(* and the order in which a run puts them onto the map.                    *)
(***************************************************************************)
EXTENDS Integers, Sequences, FiniteSets, TLC

VARIABLES
    pc,              \* position of the run
    columns,         \* df.columns: the table's columns, in the table's order
    df,              \* the rows of the table, in the table's order
    row,             \* the record a per-record function is applied to
    stamp,           \* result of get_stamp_type(row)
    popup,           \* result of build_marker_popup(row)
    counts,          \* calculate_stamp_counts: per-challenge StampCount
    general_counts,  \* calculate_stamp_counts: per-status tally
    challenge_layers,\* build_challenge_groups: column -> FeatureGroup
    status_layers,   \* build_status_groups: StampStatus -> FeatureGroup
    canvas,          \* map_obj._children: the layers on the map, in order
    csv,             \* the input table on disk
    api_key,         \* args.api_key
    dirs,            \* the routes and the tours directory on disk
    call,            \* the arguments of the running plot_gpx_tracks call
    files,           \* plot_gpx_tracks: the files the loop has yet to reach
    color_cycle,     \* plot_gpx_tracks: the position of itertools.cycle
    reached,         \* plot_gpx_tracks: the files the loop has reached
    file_colors,     \* plot_gpx_tracks: track_color of each parsed file
    track_groups,    \* plot_track: the FeatureGroups it has created
    tours_group,     \* plot_map: the shared tours FeatureGroup, once created
    messages,        \* what the run has printed
    output           \* whether map_osm.save has written the output file

tableVars == <<columns, df, counts, general_counts, challenge_layers,
               status_layers>>
rowVars == <<row, stamp, popup>>
trackVars == <<call, files, color_cycle, reached, file_colors, track_groups,
               tours_group>>
envVars == <<csv, api_key, dirs>>

vars == <<pc, tableVars, rowVars, canvas, trackVars, envVars, messages,
          output>>

----------------------------------------------------------------------------
(* Bounds of the model *)

MaxRows == 2

\* files of the directory a single plot_gpx_tracks call lists
MaxFiles == 5
\* tracks of one track file
MaxTracks == 2
\* files of each directory, and tracks of each file, of a whole run
RunFiles == 2
RunTracks == 1

----------------------------------------------------------------------------
(* Cells of the table.  pandas gives a cell a number, a string or NaN      *)
(* (an empty cell); a cell is a tagged tuple so that a string or an empty  *)
(* cell never compares equal to the number 1.                              *)

Num(n) == <<"num", n>>
Str(s) == <<"str", s>>
NaN == <<"nan">>

\* row[col] == 1 in Python: true of the number 1 (1 and 1.0 alike) only
IsOne(cell) == cell[1] = "num" /\ cell[2] = 1

----------------------------------------------------------------------------
(* Column names: the translations of the COL_ keys (docstring, usage)      *)

COL_LAT == "Lat"
COL_LON == "Long"
COL_NAME == "Name"
COL_ID == "ID"
COL_VISITED == "Besucht"
COL_MAIN_CHALLENGE == "Harzer Wandernadel"

\* two secondary (theme) challenge columns of the table
ThemeColumns == {"Harzer Grenzweg", "Goethe-Weg"}

AllColumns == {COL_LAT, COL_LON, COL_NAME, COL_ID, COL_VISITED,
               COL_MAIN_CHALLENGE} \cup ThemeColumns

\* the column orders a table is read with
ColumnOrders ==
    { <<COL_ID, COL_NAME, COL_LAT, COL_LON, COL_VISITED,
        COL_MAIN_CHALLENGE, "Harzer Grenzweg", "Goethe-Weg">>,
      <<"Goethe-Weg", COL_VISITED, "Harzer Grenzweg", COL_MAIN_CHALLENGE,
        COL_NAME, COL_LAT, COL_LON, COL_ID>> }

is_special_col(col) ==
    col \in {COL_LAT, COL_LON, COL_NAME, COL_ID, COL_VISITED}

\* the challenge columns: every column that is not special
ChallengeColumns == {col \in AllColumns : ~is_special_col(col)}

----------------------------------------------------------------------------
(* StampStatus *)

VISITED == 0
MAIN == 1
THEME == 2
BONUS == 3
StampStatus == {VISITED, MAIN, THEME, BONUS}

----------------------------------------------------------------------------
(* Records.  A flag cell is 1 or empty.                                    *)

FlagCells == {Num(1), NaN}

Rows(ids, lats, lons) ==
    { [col \in AllColumns |->
         CASE col = COL_ID -> Num(id)
           [] col = COL_NAME -> Str("Brocken")
           [] col = COL_LAT -> Num(lat)
           [] col = COL_LON -> Num(lon)
           [] OTHER -> flags[col]]
      : id \in ids, lat \in lats, lon \in lons,
        flags \in [ChallengeColumns \cup {COL_VISITED} -> FlagCells] }

\* every combination of identity values that can and cannot equal 1
AnyRows == Rows({1, 12}, {1, 51}, {1, 10})

\* the records of a table
TableRows == Rows({1, 12}, {51}, {10})

----------------------------------------------------------------------------
(* get_stamp_type *)

get_stamp_type(r) ==
    IF IsOne(r[COL_VISITED]) THEN VISITED
    ELSE IF IsOne(r[COL_MAIN_CHALLENGE]) THEN MAIN
    \* 1 in row.values: any cell of the row, the identity columns included
    ELSE IF \E col \in DOMAIN r : IsOne(r[col]) THEN THEME
    ELSE BONUS

----------------------------------------------------------------------------
(* build_marker_popup *)

\* the text of a column name as a sequence of tokens (words, ' ' and '-')
Text(col) ==
    CASE col = "Harzer Wandernadel" -> <<"Harzer", " ", "Wandernadel">>
      [] col = "Harzer Grenzweg" -> <<"Harzer", " ", "Grenzweg">>
      [] col = "Goethe-Weg" -> <<"Goethe", "-", "Weg">>
      [] OTHER -> <<col>>

\* str.replace(' ', '&nbsp;').replace('-', '&#8209;')
Escape(text) ==
    [i \in DOMAIN text |->
        IF text[i] = " " THEN "&nbsp;"
        ELSE IF text[i] = "-" THEN "&#8209;"
        ELSE text[i]]

\* the list joined into active_challenges: col for col in row.index if ...
active_challenges(r, cols) ==
    LET Keep(col) == IsOne(r[col]) /\ col # COL_VISITED
    IN  SelectSeq(cols, Keep)

\* the popup: its header (id, name) and the escaped lines that follow it
build_marker_popup(r, cols) ==
    LET active == active_challenges(r, cols)
    IN  [id |-> r[COL_ID], name |-> r[COL_NAME],
         lines |-> [i \in DOMAIN active |-> Escape(Text(active[i]))]]

----------------------------------------------------------------------------
(* calculate_stamp_counts *)

\* the value a cell adds to Series.sum(): NaN is skipped
CellValue(cell) == IF cell[1] = "num" THEN cell[2] ELSE 0

\* df[col].sum() over the rows of rows
RECURSIVE ColumnSum(_, _)
ColumnSum(rows, col) ==
    IF rows = <<>> THEN 0
    ELSE CellValue(Head(rows)[col]) + ColumnSum(Tail(rows), col)

\* df[df[COL_VISITED] == 1]
VisitedRows(rows) ==
    LET Keep(r) == IsOne(r[COL_VISITED]) IN SelectSeq(rows, Keep)

\* [col for col in df.columns if not is_special_col(col)]
categories(cols) ==
    LET Keep(col) == ~is_special_col(col) IN SelectSeq(cols, Keep)

StampCount(total, visited) == [total |-> total, visited |-> visited]

\* the status tally of the loop over df.iterrows()
RECURSIVE Tally(_, _)
Tally(rows, acc) ==
    IF rows = <<>> THEN acc
    ELSE LET t == get_stamp_type(Head(rows))
         IN  Tally(Tail(rows), [acc EXCEPT ![t] = @ + 1])

\* calculate_stamp_counts whose visited sum forgets the filter on the
\* visited column
calculate_stamp_counts_unfiltered(rows, cols) ==
    LET cats == categories(cols)
    IN  [counts |-> [col \in {cats[i] : i \in DOMAIN cats} |->
                        StampCount(ColumnSum(rows, col),
                                   ColumnSum(rows, col))],
         general_counts |-> Tally(rows, [s \in StampStatus |-> 0])]

\* counts: the dict category -> StampCount; general_counts: the dict
\* StampStatus -> int
calculate_stamp_counts(rows, cols) ==
    LET cats == categories(cols)
    IN  [counts |-> [col \in {cats[i] : i \in DOMAIN cats} |->
                        StampCount(ColumnSum(rows, col),
                                   ColumnSum(VisitedRows(rows), col))],
         general_counts |-> Tally(rows, [s \in StampStatus |-> 0])]

----------------------------------------------------------------------------
(* build_challenge_groups, build_status_groups: a dict of FeatureGroups is *)
(* the sequence of its entries in insertion order.                         *)

FeatureGroup(key, name, show) ==
    [key |-> key, name |-> name, show |-> show, children |-> <<>>]

\* build_challenge_groups with the two counts passed to format() swapped
build_challenge_groups_swapped(cols, cnt) ==
    LET cats == categories(cols)
    IN  [i \in DOMAIN cats |->
            FeatureGroup(cats[i],
                         [col |-> cats[i],
                          visited |-> cnt[cats[i]].total,
                          total |-> cnt[cats[i]].visited],
                         FALSE)]

\* CHALLENGE_TITLE.format(col, visited_count, total_count)
build_challenge_groups(cols, cnt) ==
    LET cats == categories(cols)
    IN  [i \in DOMAIN cats |->
            FeatureGroup(cats[i],
                         [col |-> cats[i],
                          visited |-> cnt[cats[i]].visited,
                          total |-> cnt[cats[i]].total],
                         FALSE)]

stamp_categories == <<VISITED, MAIN, THEME, BONUS>>

\* STAMP_STATUS.format(name.format(general_counts[stamp_type]))
build_status_groups(gen) ==
    [i \in DOMAIN stamp_categories |->
        FeatureGroup(stamp_categories[i],
                     [status |-> stamp_categories[i],
                      count |-> gen[stamp_categories[i]]],
                     stamp_categories[i] = VISITED)]

----------------------------------------------------------------------------
(* build_markers *)

marker_colors == <<"green", "red", "orange", "gray">>

\* folium.Marker(location, popup, icon); of is the index of its record
Marker(i, r, cols) ==
    [of |-> i,
     location |-> <<r[COL_LAT], r[COL_LON]>>,
     popup |-> build_marker_popup(r, cols),
     color |-> marker_colors[get_stamp_type(r) + 1]]

\* add_child that ignores the key and files the marker into every group
add_child_every(groups, key, marker) ==
    [g \in DOMAIN groups |->
        [groups[g] EXCEPT !.children = Append(@, marker)]]

\* group.add_child(marker) on the entry of the dict with key key
add_child(groups, key, marker) ==
    [g \in DOMAIN groups |->
        IF groups[g].key = key
        THEN [groups[g] EXCEPT !.children = Append(@, marker)]
        ELSE groups[g]]

\* row.index[row == 1].tolist()
OneColumns(r, cols) ==
    LET Keep(col) == IsOne(r[col]) IN SelectSeq(cols, Keep)

\* the inner loop: one marker into the group of every non-special column
RECURSIVE AddToColumns(_, _, _)
AddToColumns(groups, ones, marker) ==
    IF ones = <<>> THEN groups
    ELSE AddToColumns(
            IF ~is_special_col(Head(ones))
            THEN add_child(groups, Head(ones), marker)
            ELSE groups,
            Tail(ones), marker)

\* the loop over df.iterrows() from row i on
RECURSIVE MarkerLoop(_, _, _, _)
MarkerLoop(i, rows, cols, layers) ==
    IF i > Len(rows) THEN layers
    ELSE LET marker == Marker(i, rows[i], cols)
         IN  MarkerLoop(i + 1, rows, cols,
                [status |-> add_child(layers.status,
                                      get_stamp_type(rows[i]), marker),
                 challenge |-> AddToColumns(layers.challenge,
                                            OneColumns(rows[i], cols),
                                            marker)])

build_markers(rows, cols, feature_groups, column_feature_groups) ==
    MarkerLoop(1, rows, cols,
               [status |-> feature_groups,
                challenge |-> column_feature_groups])

----------------------------------------------------------------------------
(* The layers on the map *)

Layer(family, key, idx) == [family |-> family, key |-> key, idx |-> idx]

StatusLayer(s) == Layer("status", "", s)
ChallengeLayer(col) == Layer("challenge", col, 0)

\* map_obj.add_child(layer): _children is a dict keyed by the layer, so a
\* layer that is already on the map keeps its place
map_add_child(children, layer) ==
    IF \E i \in DOMAIN children : children[i] = layer
    THEN children
    ELSE Append(children, layer)

RECURSIVE map_add_all(_, _)
map_add_all(children, layers) ==
    IF layers = <<>> THEN children
    ELSE map_add_all(map_add_child(children, Head(layers)), Tail(layers))

\* marker_layers that puts the challenge groups before the status groups
marker_layers_swapped(status, challenge) ==
    [i \in DOMAIN challenge |-> ChallengeLayer(challenge[i].key)]
    \o [i \in DOMAIN status |-> StatusLayer(status[i].key)]

\* the two loops that end plot_markers: status_layers.values(), then
\* challenge_layers.values()
marker_layers(status, challenge) ==
    [i \in DOMAIN status |-> StatusLayer(status[i].key)]
    \o [i \in DOMAIN challenge |-> ChallengeLayer(challenge[i].key)]

----------------------------------------------------------------------------
(* plot_markers, one action per call it makes                              *)

\* the tables: MaxRows records at most, one at least
Tables == UNION {[1..n -> TableRows] : n \in 1..MaxRows}

\* values of the variables a specification does not use
NoCsv == [exists |-> FALSE, columns |-> <<>>, rows |-> <<>>]
EmptyDir == [exists |-> TRUE, files |-> {}]
NoDirs == [routes |-> EmptyDir, tours |-> EmptyDir]
NoCall == [directory |-> "", colors |-> <<>>, shared |-> FALSE,
           return |-> ""]
NoRow == [col \in AllColumns |-> NaN]
NoPopup == [id |-> NaN, name |-> NaN, lines |-> <<>>]

MarkersInit ==
    /\ pc = "plot_markers"
    /\ columns \in ColumnOrders
    /\ df \in Tables
    /\ row = NoRow
    /\ stamp = -1
    /\ popup = NoPopup
    /\ counts = <<>>
    /\ general_counts = <<>>
    /\ challenge_layers = <<>>
    /\ status_layers = <<>>
    /\ canvas = <<>>
    /\ csv = NoCsv
    /\ api_key = ""
    /\ dirs = NoDirs
    /\ call = NoCall
    /\ files = <<>>
    /\ color_cycle = 0
    /\ reached = <<>>
    /\ file_colors = <<>>
    /\ track_groups = <<>>
    /\ tours_group = <<>>
    /\ messages = <<>>
    /\ output = FALSE

CalculateStampCounts ==
    /\ pc = "plot_markers"
    /\ LET result == calculate_stamp_counts(df, columns)
       IN  /\ counts' = result.counts
           /\ general_counts' = result.general_counts
    /\ pc' = "build_challenge_groups"
    /\ UNCHANGED <<columns, df, challenge_layers, status_layers, rowVars,
                   canvas, trackVars, envVars, messages, output>>

BuildChallengeGroups ==
    /\ pc = "build_challenge_groups"
    /\ challenge_layers' = build_challenge_groups(columns, counts)
    /\ pc' = "build_status_groups"
    /\ UNCHANGED <<columns, df, counts, general_counts, status_layers,
                   rowVars, canvas, trackVars, envVars, messages, output>>

BuildStatusGroups ==
    /\ pc = "build_status_groups"
    /\ status_layers' = build_status_groups(general_counts)
    /\ pc' = "build_markers"
    /\ UNCHANGED <<columns, df, counts, general_counts, challenge_layers,
                   rowVars, canvas, trackVars, envVars, messages, output>>

BuildMarkers ==
    /\ pc = "build_markers"
    /\ LET built == build_markers(df, columns, status_layers,
                                  challenge_layers)
       IN  /\ status_layers' = built.status
           /\ challenge_layers' = built.challenge
    /\ pc' = "add_marker_layers"
    /\ UNCHANGED <<columns, df, counts, general_counts, rowVars, canvas,
                   trackVars, envVars, messages, output>>

\* for group in status_layers.values(): ...; then the challenge layers
AddMarkerLayers ==
    /\ pc = "add_marker_layers"
    /\ canvas' = map_add_all(canvas,
                    marker_layers(status_layers, challenge_layers))
    /\ pc' = "plot_routes"
    /\ UNCHANGED <<tableVars, rowVars, trackVars, envVars, messages,
                   output>>

MarkersNext ==
    \/ CalculateStampCounts
    \/ BuildChallengeGroups
    \/ BuildStatusGroups
    \/ BuildMarkers
    \/ AddMarkerLayers

SpecMarkers == MarkersInit /\ [][MarkersNext]_vars

----------------------------------------------------------------------------
(* Specification of the per-record functions                               *)

RowInit ==
    /\ pc = "row"
    /\ columns \in ColumnOrders
    /\ row \in AnyRows
    /\ df = <<>>
    /\ stamp = -1
    /\ popup = NoPopup
    /\ counts = <<>>
    /\ general_counts = <<>>
    /\ challenge_layers = <<>>
    /\ status_layers = <<>>
    /\ canvas = <<>>
    /\ csv = NoCsv
    /\ api_key = ""
    /\ dirs = NoDirs
    /\ call = NoCall
    /\ files = <<>>
    /\ color_cycle = 0
    /\ reached = <<>>
    /\ file_colors = <<>>
    /\ track_groups = <<>>
    /\ tours_group = <<>>
    /\ messages = <<>>
    /\ output = FALSE

GetStampType ==
    /\ pc = "row"
    /\ stamp' = get_stamp_type(row)
    /\ pc' = "typed"
    /\ UNCHANGED <<row, popup, tableVars, canvas, trackVars, envVars,
                   messages, output>>

BuildMarkerPopup ==
    /\ pc = "typed"
    /\ popup' = build_marker_popup(row, columns)
    /\ pc' = "popup"
    /\ UNCHANGED <<row, stamp, tableVars, canvas, trackVars, envVars,
                   messages, output>>

RowNext == GetStampType \/ BuildMarkerPopup

SpecRow == RowInit /\ [][RowNext]_vars

----------------------------------------------------------------------------
(* Track files and directories.  A file name is its rank in the            *)
(* lexicographic order of the names; gpx says whether it ends in '.gpx',   *)
(* ok whether gpxpy.parse accepts it.                                      *)

\* the j-th track of a file: the first is unnamed and has one segment
Track(j) ==
    IF j = 1 THEN [name |-> "", segments |-> 1]
    ELSE [name |-> "Hexenstieg", segments |-> 2]

FileKinds(maxTracks) ==
    {[gpx |-> FALSE, ok |-> FALSE, tracks |-> <<>>],
     [gpx |-> TRUE, ok |-> FALSE, tracks |-> <<>>]}
    \cup {[gpx |-> TRUE, ok |-> TRUE, tracks |-> [j \in 1..k |-> Track(j)]]
            : k \in 0..maxTracks}

File(name, kind) ==
    [name |-> name, gpx |-> kind.gpx, ok |-> kind.ok, tracks |-> kind.tracks]

\* a directory that exists, with the files 1..n of the kinds given
Directory(n, kinds) ==
    [exists |-> TRUE, files |-> {File(i, kinds[i]) : i \in 1..n}]

\* the directories that exist: at most maxFiles files
Listings(maxFiles, maxTracks) ==
    UNION {{Directory(n, kinds) : kinds \in [1..n -> FileKinds(maxTracks)]}
            : n \in 0..maxFiles}

\* a directory that does not exist: os.listdir raises FileNotFoundError
MissingDir == [exists |-> FALSE, files |-> {}]

\* sorted in descending order of the names
RECURSIVE sorted_descending(_)
sorted_descending(listing) ==
    IF listing = {} THEN <<>>
    ELSE LET last == CHOOSE f \in listing :
                        \A g \in listing : g.name <= f.name
         IN  <<last>> \o sorted_descending(listing \ {last})

\* sorted(os.listdir(directory)): ascending order of the names
RECURSIVE sorted(_)
sorted(listing) ==
    IF listing = {} THEN <<>>
    ELSE LET first == CHOOSE f \in listing :
                         \A g \in listing : f.name <= g.name
         IN  <<first>> \o sorted(listing \ {first})

----------------------------------------------------------------------------
(* plot_track *)

RouteLayer(name, idx) == Layer("route", name, idx)
ToursLayer == Layer("tours", "", 0)
ControlLayer == Layer("control", "", 0)
TileLayer(name) == Layer("tile", name, 0)

\* track.name or translator.translate("UNNAMED_TRACK")
track_name(track) == IF track.name # "" THEN track.name ELSE "UNNAMED_TRACK"

\* folium.PolyLine(points, color, popup): one per segment of the track;
\* file and track say which track of which file it draws
PolyLines(file, j, track, color) ==
    [seg \in 1..track.segments |->
        [file |-> file, track |-> j, segment |-> seg, color |-> color,
         popup |-> track_name(track)]]

\* plot_track that takes a new group whether or not it is given one
uses_shared_group_never(shared) == FALSE

\* tfg is None decides between a new FeatureGroup and the one given
uses_shared_group(shared) == shared

\* st is [groups, tours, canvas]: the groups created so far, the shared
\* tours group (a sequence of at most one) and the layers on the map
plot_track(st, file, j, track, color, shared) ==
    LET lines == PolyLines(file, j, track, color)
    IN  IF uses_shared_group(shared)
        THEN [groups |-> st.groups,
              tours |-> <<[st.tours[1] EXCEPT !.children = @ \o lines]>>,
              canvas |-> map_add_child(st.canvas, ToursLayer)]
        ELSE LET idx == Len(st.groups) + 1
                 group == [FeatureGroup(idx, track_name(track), FALSE)
                             EXCEPT !.children = lines]
             IN  [groups |-> Append(st.groups, group),
                  tours |-> st.tours,
                  canvas |-> map_add_child(st.canvas,
                                RouteLayer(track_name(track), idx))]

\* for track in gpx.tracks: plot_track(...), from track j on
RECURSIVE plot_tracks(_, _, _, _, _, _)
plot_tracks(st, file, j, tracks, color, shared) ==
    IF j > Len(tracks) THEN st
    ELSE plot_tracks(plot_track(st, file, j, tracks[j], color, shared),
                     file, j + 1, tracks, color, shared)

----------------------------------------------------------------------------
(* plot_gpx_tracks, one action per iteration of its loop                   *)

\* print(translator.translate(key).format(...)): the key and its arguments
Message(key, directory, file) ==
    [key |-> key, directory |-> directory, file |-> file]

trail_colors == <<"blue", "green", "red", "purple">>
finished_tour_colors == <<"black">>

\* the loop body drops the rest of the listing when a file fails
rest_after_error_none(listing) == <<>>

\* the try statement is inside the loop: after a failure the loop goes on
rest_after_error(listing) == Tail(listing)

\* os.listdir(directory), sorted; a missing directory raises, and nothing
\* between here and the end of main catches it
ListDir ==
    /\ pc = "plot_gpx_tracks"
    /\ IF dirs[call.directory].exists
       THEN /\ files' = sorted(dirs[call.directory].files)
            /\ pc' = "loop"
       ELSE /\ files' = <<>>
            /\ pc' = "crashed"
    /\ color_cycle' = 0
    /\ reached' = <<>>
    /\ file_colors' = <<>>
    /\ UNCHANGED <<tableVars, rowVars, canvas, call, track_groups,
                   tours_group, envVars, messages, output>>

PlotGpxFile ==
    /\ pc = "loop"
    /\ files # <<>>
    /\ LET file == Head(files)
       IN  /\ reached' = Append(reached, file.name)
           /\ IF ~file.gpx
              THEN \* file.endswith('.gpx') is false
                   /\ files' = Tail(files)
                   /\ UNCHANGED <<color_cycle, file_colors, track_groups,
                                  tours_group, canvas, messages>>
              ELSE IF ~file.ok
              THEN \* gpxpy.parse raises: except Exception prints
                   /\ files' = rest_after_error(files)
                   /\ messages' = Append(messages,
                         Message("PROCESSING_ERROR", call.directory,
                                 file.name))
                   /\ UNCHANGED <<color_cycle, file_colors, track_groups,
                                  tours_group, canvas>>
              ELSE LET track_color == call.colors[color_cycle + 1]
                       st == plot_tracks(
                                [groups |-> track_groups,
                                 tours |-> tours_group,
                                 canvas |-> canvas],
                                file.name, 1, file.tracks, track_color,
                                call.shared)
                   IN  /\ color_cycle' = (color_cycle + 1) % Len(call.colors)
                       /\ file_colors' = Append(file_colors,
                             [file |-> file.name, color |-> track_color])
                       /\ track_groups' = st.groups
                       /\ tours_group' = st.tours
                       /\ canvas' = st.canvas
                       /\ files' = Tail(files)
                       /\ UNCHANGED messages
    /\ UNCHANGED <<pc, tableVars, rowVars, call, envVars, output>>

ReturnFromTracks ==
    /\ pc = "loop"
    /\ files = <<>>
    /\ pc' = call.return
    /\ UNCHANGED <<tableVars, rowVars, canvas, trackVars, envVars, messages,
                   output>>

\* the two calls plot_map makes
RoutesCall(return) ==
    [directory |-> "routes", colors |-> trail_colors, shared |-> FALSE,
     return |-> return]
ToursCall(return) ==
    [directory |-> "tours", colors |-> finished_tour_colors,
     shared |-> TRUE, return |-> return]

FINISHED_TOURS == FeatureGroup("tours", "FINISHED_TOURS", TRUE)

\* the directories of a whole run
RunDirs == Listings(RunFiles, RunTracks) \cup {MissingDir}

\* one call of plot_gpx_tracks, as plot_map makes it for the routes (on a
\* directory of at most MaxFiles files) or for the tours (a directory of a
\* whole run)
TracksInit ==
    /\ pc = "plot_gpx_tracks"
    /\ \/ /\ call = RoutesCall("returned")
          /\ \/ \E n \in 0..MaxFiles :
                   \E kinds \in [1..n -> FileKinds(MaxTracks)] :
                      dirs = [routes |-> Directory(n, kinds),
                              tours |-> EmptyDir]
             \/ dirs = [routes |-> MissingDir, tours |-> EmptyDir]
          /\ tours_group = <<>>
       \/ /\ call = ToursCall("returned")
          /\ dirs \in [routes : {EmptyDir}, tours : RunDirs]
          /\ tours_group = <<FINISHED_TOURS>>
    /\ columns = <<>>
    /\ df = <<>>
    /\ row = NoRow
    /\ stamp = -1
    /\ popup = NoPopup
    /\ counts = <<>>
    /\ general_counts = <<>>
    /\ challenge_layers = <<>>
    /\ status_layers = <<>>
    /\ canvas = <<>>
    /\ csv = NoCsv
    /\ api_key = ""
    /\ files = <<>>
    /\ color_cycle = 0
    /\ reached = <<>>
    /\ file_colors = <<>>
    /\ track_groups = <<>>
    /\ messages = <<>>
    /\ output = FALSE

TracksNext == ListDir \/ PlotGpxFile \/ ReturnFromTracks

SpecTracks == TracksInit /\ [][TracksNext]_vars

----------------------------------------------------------------------------
(* main and plot_map *)

\* the records of the tables of a whole run
Stamp(id, visited, main, grenzweg, goethe) ==
    [col \in AllColumns |->
        CASE col = COL_ID -> Num(id)
          [] col = COL_NAME -> Str("Brocken")
          [] col = COL_LAT -> Num(51)
          [] col = COL_LON -> Num(10)
          [] col = COL_VISITED -> visited
          [] col = COL_MAIN_CHALLENGE -> main
          [] col = "Harzer Grenzweg" -> grenzweg
          [] OTHER -> goethe]

FirstOrder == CHOOSE order \in ColumnOrders : order[1] = COL_ID

\* the input table: missing, without rows, or with rows
CsvFiles ==
    {NoCsv,
     [exists |-> TRUE, columns |-> FirstOrder, rows |-> <<>>],
     [exists |-> TRUE, columns |-> FirstOrder,
      rows |-> <<Stamp(12, Num(1), Num(1), NaN, NaN),
                 Stamp(7, NaN, NaN, Num(1), Num(1))>>]}

Init ==
    /\ pc = "main"
    /\ csv \in CsvFiles
    /\ api_key \in {"", "key"}
    /\ dirs \in [routes : RunDirs, tours : RunDirs]
    /\ columns = <<>>
    /\ df = <<>>
    /\ row = NoRow
    /\ stamp = -1
    /\ popup = NoPopup
    /\ counts = <<>>
    /\ general_counts = <<>>
    /\ challenge_layers = <<>>
    /\ status_layers = <<>>
    /\ canvas = <<>>
    /\ call = NoCall
    /\ files = <<>>
    /\ color_cycle = 0
    /\ reached = <<>>
    /\ file_colors = <<>>
    /\ track_groups = <<>>
    /\ tours_group = <<>>
    /\ messages = <<>>
    /\ output = FALSE

\* main, up to the return on an empty DataFrame; load_csv_data gives an
\* empty DataFrame, and prints, when the file is not found
LoadCsvData ==
    /\ pc = "main"
    /\ LET found == csv.exists
           loaded == IF found THEN csv.rows ELSE <<>>
           printed == IF found THEN messages
                      ELSE Append(messages, Message("FILE_NOT_FOUND", "", 0))
       IN  /\ df' = loaded
           /\ columns' = IF found THEN csv.columns ELSE <<>>
           /\ IF loaded = <<>>
              THEN /\ messages' = Append(printed,
                                         Message("NO_DATA_TO_PLOT", "", 0))
                   /\ pc' = "returned"
              ELSE /\ messages' = printed
                   /\ pc' = "plot_map"
    /\ UNCHANGED <<counts, general_counts, challenge_layers, status_layers,
                   rowVars, canvas, trackVars, envVars, output>>

\* the tile layers add_folium_tile_layers adds, in order
tile_layers(key) ==
    <<"OpenTopoMap">>
    \o (IF key # "" THEN <<"OpenCycleMap", "Outdoors", "Transport">>
        ELSE <<>>)
    \o <<"Cartodb Positron">>

\* create_folium_map and add_folium_tile_layers
CreateMap ==
    /\ pc = "plot_map"
    /\ canvas' = map_add_all(<<TileLayer("OpenStreetMap")>>,
                    [i \in DOMAIN tile_layers(api_key) |->
                        TileLayer(tile_layers(api_key)[i])])
    /\ pc' = "plot_markers"
    /\ UNCHANGED <<tableVars, rowVars, trackVars, envVars, messages,
                   output>>

\* plot_gpx_tracks(map_osm, trail_colors, translator, directory=routes_dir)
CallPlotRoutes ==
    /\ pc = "plot_routes"
    /\ call' = RoutesCall("plot_tours")
    /\ pc' = "plot_gpx_tracks"
    /\ UNCHANGED <<tableVars, rowVars, canvas, files, color_cycle, reached,
                   file_colors, track_groups, tours_group, envVars,
                   messages, output>>

\* tours_group = folium.FeatureGroup(...); plot_gpx_tracks(..., tours_group)
CallPlotTours ==
    /\ pc = "plot_tours"
    /\ tours_group' = <<FINISHED_TOURS>>
    /\ call' = ToursCall("finish_map")
    /\ pc' = "plot_gpx_tracks"
    /\ UNCHANGED <<tableVars, rowVars, canvas, files, color_cycle, reached,
                   file_colors, track_groups, envVars, messages, output>>

\* map_osm.add_child(tours_group); folium.LayerControl().add_to(map_osm)
FinishMap ==
    /\ pc = "finish_map"
    /\ canvas' = Append(map_add_child(canvas, ToursLayer), ControlLayer)
    /\ pc' = "save"
    /\ UNCHANGED <<tableVars, rowVars, trackVars, envVars, messages,
                   output>>

\* map_osm.save(args.output) and the message that follows it
SaveMap ==
    /\ pc = "save"
    /\ output' = TRUE
    /\ messages' = Append(messages, Message("MAP_SAVED_SUCCESSFULLY", "", 0))
    /\ pc' = "done"
    /\ UNCHANGED <<tableVars, rowVars, canvas, trackVars, envVars>>

Next ==
    \/ LoadCsvData
    \/ CreateMap
    \/ CalculateStampCounts
    \/ BuildChallengeGroups
    \/ BuildStatusGroups
    \/ BuildMarkers
    \/ AddMarkerLayers
    \/ CallPlotRoutes
    \/ ListDir
    \/ PlotGpxFile
    \/ ReturnFromTracks
    \/ CallPlotTours
    \/ FinishMap
    \/ SaveMap

Spec == Init /\ [][Next]_vars

----------------------------------------------------------------------------
(* Properties of the per-record functions and of plot_markers              *)

\* the identity columns and the visited column, named one by one
IdentityColumns == {"Lat", "Long", "Name", "ID"}
FlagColumns == AllColumns \ (IdentityColumns \cup {"Besucht"})
SecondaryColumns == FlagColumns \ {"Harzer Wandernadel"}

\* the number of markers of record i among children
MarkersOf(children, i) ==
    Cardinality({k \in DOMAIN children : children[k].of = i})

GroupsWithKey(groups, key) == {g \in DOMAIN groups : groups[g].key = key}

\* C1: get_stamp_type returns VISITED if the visited flag is 1, otherwise
\* MAIN if the main-challenge flag is 1, otherwise THEME if at least one
\* secondary challenge flag is 1, otherwise BONUS, whatever the values of the
\* identity columns.
C1_Precedence ==
    pc \in {"typed", "popup"} =>
        stamp = IF IsOne(row["Besucht"]) THEN VISITED
                ELSE IF IsOne(row["Harzer Wandernadel"]) THEN MAIN
                ELSE IF \E col \in SecondaryColumns : IsOne(row[col])
                     THEN THEME
                ELSE BONUS

\* C8: the popup of a record lists exactly the challenge columns whose flag
\* the record has set, each once, in the table's column order, and no
\* identity or visited column.
C8_PopupListsChallenges ==
    pc = "popup" =>
        LET Set(col) == col \in FlagColumns /\ IsOne(row[col])
            expected == SelectSeq(columns, Set)
        IN  popup.lines = [i \in DOMAIN expected |->
                              Escape(Text(expected[i]))]

\* C2: after build_markers every record has exactly one marker in the status
\* group of its get_stamp_type result and none in the other three, and one
\* marker in the group of each challenge column whose flag it has set and
\* none in any other challenge group.
C2_OneMarkerPerGroup ==
    pc \in {"add_marker_layers", "plot_routes"} =>
        /\ \A s \in StampStatus :
              Cardinality(GroupsWithKey(status_layers, s)) = 1
        /\ \A col \in FlagColumns :
              Cardinality(GroupsWithKey(challenge_layers, col)) = 1
        /\ \A i \in DOMAIN df :
              /\ \A g \in DOMAIN status_layers :
                    MarkersOf(status_layers[g].children, i) =
                        IF status_layers[g].key = get_stamp_type(df[i])
                        THEN 1 ELSE 0
              /\ \A g \in DOMAIN challenge_layers :
                    MarkersOf(challenge_layers[g].children, i) =
                        IF IsOne(df[i][challenge_layers[g].key])
                        THEN 1 ELSE 0

\* C2 witness: markers are built for a table with a record that has no
\* challenge flag and a record that has several.
C2_Witness ==
    /\ pc = "add_marker_layers"
    /\ \E i \in DOMAIN df : \A col \in FlagColumns : ~IsOne(df[i][col])
    /\ \E i \in DOMAIN df : \A col \in FlagColumns : IsOne(df[i][col])

\* C3: calculate_stamp_counts gives every challenge column, and no special
\* column, an entry whose total is the number of records with that flag set
\* and whose visited is the number of those that are visited, so that
\* visited <= total.
C3_CountsAreCardinalities ==
    pc \notin {"plot_markers", "row", "typed", "popup"} =>
        /\ DOMAIN counts = FlagColumns
        /\ \A col \in DOMAIN counts :
              /\ counts[col].total =
                    Cardinality({i \in DOMAIN df : IsOne(df[i][col])})
              /\ counts[col].visited =
                    Cardinality({i \in DOMAIN df :
                                    /\ IsOne(df[i][col])
                                    /\ IsOne(df[i]["Besucht"])})
              /\ counts[col].visited <= counts[col].total

\* C3 witness: the counts of a table in which a challenge has two records,
\* one of them visited.
C3_Witness ==
    /\ pc = "build_challenge_groups"
    /\ \E col \in DOMAIN counts :
          counts[col].total = 2 /\ counts[col].visited = 1

\* C10: after plot_markers the count in each status group's label is the
\* number of markers in the group and the four counts sum to the number of
\* records; each challenge group's label total is the number of its markers
\* and its visited count the number of those whose record is visited.
C10_LabelsAgreeWithGroups ==
    pc = "plot_routes" =>
        /\ \A g \in DOMAIN status_layers :
              status_layers[g].name.count = Len(status_layers[g].children)
        /\ status_layers[1].name.count + status_layers[2].name.count
             + status_layers[3].name.count + status_layers[4].name.count
             = Len(df)
        /\ \A g \in DOMAIN challenge_layers :
              LET group == challenge_layers[g]
              IN  /\ group.name.total = Len(group.children)
                  /\ group.name.visited =
                        Cardinality({k \in DOMAIN group.children :
                            IsOne(df[group.children[k].of]["Besucht"])})

\* C10 witness: plot_markers has run on a table with records of two statuses
\* and a challenge of two records, one of them visited.
C10_Witness ==
    /\ pc = "plot_routes"
    /\ Len(status_layers) = 4
    /\ status_layers[1].name.count = 1
    /\ status_layers[2].name.count = 1
    /\ \E g \in DOMAIN challenge_layers :
          /\ challenge_layers[g].name.total = 2
          /\ challenge_layers[g].name.visited = 1

----------------------------------------------------------------------------
(* Properties of plot_gpx_tracks                                           *)

\* the directory the running call lists
Listed == dirs[call.directory].files

\* the PolyLines drawn so far, in the route groups and in the tours group
Range(seq) == {seq[i] : i \in DOMAIN seq}
LinesIn(groups) == UNION {Range(g.children) : g \in Range(groups)}
Drawn == LinesIn(track_groups) \cup LinesIn(tours_group)

\* the 0-based position of file f among the files of its directory that
\* satisfy Counts, in the order of the names
Position(f, Counts(_)) ==
    Cardinality({g \in Listed : Counts(g) /\ g.name < f.name})

IsTrackFile(f) == f.gpx
IsParsedFile(f) == f.gpx /\ f.ok

\* the files of the colour log and the lines drawn have the colour that
\* Colour(file) gives
ColouredBy(Colour(_)) ==
    /\ \A i \in DOMAIN file_colors :
          \E f \in Listed :
             /\ f.name = file_colors[i].file
             /\ file_colors[i].color = Colour(f)
    /\ \A line \in Drawn :
          \E f \in Listed : f.name = line.file /\ line.color = Colour(f)

\* C4 as stated: the k-th track file of the directory, in lexicographic
\* order, is drawn with palette[k mod len(palette)], and so is every track
\* of it.
C4_ColourByFilePosition ==
    pc \in {"loop", "returned"} =>
        LET Colour(f) ==
              call.colors[(Position(f, IsTrackFile) % Len(call.colors)) + 1]
        IN  ColouredBy(Colour)

\* C4 amended: the k-th track file that parses, in lexicographic order, is
\* drawn with palette[k mod len(palette)], every track of it has that
\* colour, and every parsed file the loop has reached has a colour.
C4_ColourByParsedPosition ==
    pc \in {"loop", "returned"} =>
        LET Colour(f) ==
              call.colors[(Position(f, IsParsedFile) % Len(call.colors)) + 1]
        IN  /\ ColouredBy(Colour)
            /\ \A f \in Listed :
                  (IsParsedFile(f) /\ f.name \in Range(reached)) =>
                      \E i \in DOMAIN file_colors :
                         file_colors[i].file = f.name

\* C4 witness: a call has drawn more files than the palette has colours,
\* one of them with two tracks, so that the colours have wrapped around.
C4_Witness ==
    /\ pc = "returned"
    /\ Len(file_colors) > Len(call.colors)
    /\ Len(call.colors) = 4
    /\ file_colors[5].color = "blue"
    /\ \E a \in Drawn, b \in Drawn : a.file = 5 /\ b.file = 5 /\ a.track # b.track

\* C5: whatever files of the listing fail to parse, the loop reaches every
\* file, each failing file is reported once and skipped, every track of
\* every valid file is emitted onto the map, and only a directory that
\* cannot be listed ends the call abnormally.
C5_FailuresAreSkipped ==
    /\ pc = "crashed" => ~dirs[call.directory].exists
    /\ pc = "returned" =>
          /\ Len(reached) = Cardinality(Listed)
          /\ Range(reached) = {f.name : f \in Listed}
          /\ \A f \in Listed :
                Cardinality({m \in DOMAIN messages :
                                /\ messages[m].key = "PROCESSING_ERROR"
                                /\ messages[m].file = f.name})
                   = IF f.gpx /\ ~f.ok THEN 1 ELSE 0
          /\ \A f \in Listed :
                IF IsParsedFile(f)
                THEN \A j \in DOMAIN f.tracks :
                        \A seg \in 1..f.tracks[j].segments :
                           \E line \in Drawn :
                              /\ line.file = f.name
                              /\ line.track = j
                              /\ line.segment = seg
                ELSE \A line \in Drawn : line.file # f.name
          /\ \A g \in DOMAIN track_groups :
                RouteLayer(track_groups[g].name, g) \in Range(canvas)
          /\ LinesIn(tours_group) # {} => ToursLayer \in Range(canvas)

\* C5 witness: a call has returned from a directory in which valid files
\* with tracks follow two files that failed to parse.
C5_Witness ==
    /\ pc = "returned"
    /\ \E f \in Listed, g \in Listed, h \in Listed :
          /\ f.name < g.name /\ g.name < h.name
          /\ f.gpx /\ ~f.ok /\ g.gpx /\ ~g.ok
          /\ IsParsedFile(h) /\ Len(h.tracks) = 2

----------------------------------------------------------------------------
(* Properties of a whole run                                               *)

ParsedRouteFiles == {f \in dirs.routes.files : IsParsedFile(f)}

RECURSIVE TrackCount(_)
TrackCount(listing) ==
    IF listing = {} THEN 0
    ELSE LET f == CHOOSE g \in listing : TRUE
         IN  Len(f.tracks) + TrackCount(listing \ {f})

\* every track of every parsed file of the tours directory is in the shared
\* tours group
ToursAreShared ==
    \A f \in dirs.tours.files :
       IsParsedFile(f) =>
          \A j \in DOMAIN f.tracks :
             \E line \in LinesIn(tours_group) :
                line.file = f.name /\ line.track = j

C6_RunEndsInOneOfTwoWays ==
    /\ pc # "crashed"
    /\ pc = "returned" =>
          /\ ~csv.exists \/ csv.rows = <<>>
          /\ ~output
          /\ \E m \in DOMAIN messages : messages[m].key = "NO_DATA_TO_PLOT"
    /\ pc = "done" => csv.exists /\ csv.rows # <<>> /\ output
    /\ output => pc = "done"

FamilyRank(layer) ==
    CASE layer.family = "tile" -> 0
      [] layer.family = "status" -> 1
      [] layer.family = "challenge" -> 2
      [] layer.family = "route" -> 3
      [] layer.family = "tours" -> 4
      [] layer.family = "control" -> 5

LayersOf(family) == {i \in DOMAIN canvas : canvas[i].family = family}

\* C7: on the map the base tiles come first, then the four status groups,
\* then the challenge groups, then the route groups, then the tours group,
\* once, and the layer control last; no group of a later family precedes
\* one of an earlier family.
C7_LayerOrder ==
    /\ \A i \in DOMAIN canvas, j \in DOMAIN canvas :
          i < j => /\ FamilyRank(canvas[i]) <= FamilyRank(canvas[j])
                   /\ canvas[i] # canvas[j]
    /\ pc \in {"save", "done"} =>
          /\ canvas[1] = TileLayer("OpenStreetMap")
          /\ canvas[Len(canvas)] = ControlLayer
          /\ Cardinality(LayersOf("status")) = 4
          /\ Cardinality(LayersOf("challenge")) = Cardinality(FlagColumns)
          /\ Cardinality(LayersOf("route")) = Len(track_groups)
          /\ Cardinality(LayersOf("tours")) = 1
          /\ Cardinality(LayersOf("control")) = 1

\* C7 witness: a run is done that has put two route groups on the map and
\* has drawn two tours tracks into the tours group.
C7_Witness ==
    /\ pc = "done"
    /\ Cardinality(LayersOf("route")) = 2
    /\ \E a \in LinesIn(tours_group), b \in LinesIn(tours_group) :
          a.file # b.file

====
